---- MODULE Spec2Model ----
(***************************************************************************)
(* The timer face (timer_face.c) and the alarm face (alarm_face.c) of      *)
(* Sensor-Watch's movement firmware, as state machines driven by the       *)
(* host's events.                                                          *)
(*                                                                         *)
(* Spec        : the timer face is run (start, pause, resume, reset,       *)
(*               expiry, beeps, face switches) from a stored timer.        *)
(* SettingSpec : the timer's settings are edited, up to the start.         *)
(* AlarmSpec   : the alarm face's event loop (settings, enable toggle).    *)
(* FireSpec    : the alarm's per-minute fire check under a running clock.  *)
(* FacesSpec   : both faces' settings, with the host moving between them.  *)
(* WeekdaySpec : the alarm's weekday index, over the dates of the clock.   *)
(***************************************************************************)
EXTENDS Integers, FiniteSets, Sequences, TLC

(***************************************************************************)
(* Bounds of the model.                                                    *)
(***************************************************************************)
\* the real-time clock runs from 0 to MaxClock seconds
MaxClock == 3
\* ticks counted while pausing (pausing_seconds is a uint8_t)
MaxPausingSeconds == 2
\* automatic expiries followed in one run of a repeating timer
MaxExpiries == 12
\* a settings field is incremented while its value is below MaxEdit, or
\* is the last value before the wrap
MaxEdit == 1
\* ticks between two seconds of the clock (at 4 Hz or 8 Hz) are followed
\* while now_ts is less than MaxAhead seconds ahead of the clock
MaxAhead == 2
\* the time zone offset of the host's settings, in seconds
TzOffset == 60
\* minutes of the clock followed under the alarm's fire check
MaxMinutes == 1442
\* fire checks the host makes within one minute
MaxChecks == 2
\* hours and minutes of the alarm and of the clock under the indicator's
\* check: the values below MaxSample and the last one (23, 59)
MaxSample == 1

(***************************************************************************)
(* Timer face state: timer_state_t, the file's static counter, and the     *)
(* host state the face reads and writes.                                   *)
(***************************************************************************)
VARIABLES
    state,           \* timer_state_t
    beeps_to_play,   \* static uint8_t _beeps_to_play
    buzzer,          \* the sequence the buzzer plays: "idle", "start", "beep"
    tick_frequency,  \* last movement_request_tick_frequency
    bg_task,         \* the face's scheduled background task
    bell,            \* WATCH_INDICATOR_BELL
    rtc,             \* the real-time clock, seconds
    active,          \* the timer face is the face shown
    expiries,        \* history: automatic expiries since the timer left waiting
    plays,           \* history: times the beep sequence has been handed to
                     \* the buzzer since the last EVENT_BACKGROUND_TASK, as
                     \* long as the buzzer is playing it; 0 once it is not
    event,           \* history: the last event handled
    before           \* history: the variables as they were before that event

(***************************************************************************)
(* Alarm face state: alarm_state_t, the file's static counter, and the     *)
(* host state the face reads and writes.                                   *)
(***************************************************************************)
VARIABLES
    alarm_state,          \* alarm_state_t
    _wait_ticks,          \* static int8_t _wait_ticks
    alarm_tick_frequency, \* last movement_request_tick_frequency
    alarm_enabled,        \* settings->bit.alarm_enabled
    alarm_sound,          \* what the face has last played on the buzzer
    now,                  \* the date and time the real-time clock shows
    alarm_active,         \* the alarm face is the face shown
    alarm_held,           \* the alarm button is down since a long press
    background_due,       \* the fire check has asked for a background task
    checked               \* history: minutes elapsed, the fire checks of
                          \* this minute, how many have returned true, and
                          \* how many have returned true in all

alarm_vars == <<alarm_state, _wait_ticks, alarm_tick_frequency, alarm_enabled,
                alarm_sound, now, alarm_active, alarm_held, background_due,
                checked>>

timer_vars == <<state, beeps_to_play, buzzer, tick_frequency, bg_task, bell,
                rtc, active, expiries, plays>>

vars == <<timer_vars, alarm_vars, event, before>>

U8(x) == x % 256

(***************************************************************************)
(* uint32_t values (now_ts, target_ts, paused_left) are held by their      *)
(* 32 bit two's complement reading: v below 2^31 as v, and v from 2^31 on  *)
(* as v - 2^32. Sums and differences modulo 2^32 are then the integer sums *)
(* and differences, as long as they stay within 31 bits, which the bounds  *)
(* of the clock and of the durations (under a day) ensure; a difference    *)
(* that wraps below zero in the code shows as a negative number here.      *)
(***************************************************************************)

(***************************************************************************)
(* watch_date_time and the conversions of watch_utility: a date-time is    *)
(* the day number and the time of day.                                     *)
(***************************************************************************)
\* 2^32 seconds are 49710 days and 23296 seconds
watch_utility_date_time_from_unix_time(ts, tz) ==
    LET t == IF ts >= 0 THEN ts + tz ELSE 23296 + ts + tz
        d == IF ts >= 0 THEN 0 ELSE 49710
    IN  [day    |-> d + (t \div 86400),
         hour   |-> (t % 86400) \div 3600,
         minute |-> (t % 3600) \div 60,
         second |-> t % 60]

watch_utility_date_time_to_unix_time(dt, tz) ==
    LET tod == dt.hour * 3600 + dt.minute * 60 + dt.second
    IN  IF dt.day < 24855
        THEN dt.day * 86400 + tod - tz
        ELSE (dt.day - 49710) * 86400 + tod - 23296 - tz

watch_utility_offset_timestamp(ts, hours, minutes, seconds) ==
    ts + hours * 3600 + minutes * 60 + seconds

\* a is not later than b
DateTimeReached(a, b) ==
    \/ a.day < b.day
    \/ /\ a.day = b.day
       /\ a.hour * 3600 + a.minute * 60 + a.second
             <= b.hour * 3600 + b.minute * 60 + b.second

\* what watch_rtc_get_date_time() returns when the clock shows c
watch_rtc_get_date_time(c) == watch_utility_date_time_from_unix_time(c, TzOffset)

NoTask == [scheduled |-> FALSE, dt |-> [day |-> 0, hour |-> 0, minute |-> 0, second |-> 0]]

\* movement_schedule_background_task_for_face
ScheduleTask(dt) == [scheduled |-> TRUE, dt |-> dt]

(***************************************************************************)
(* timer_setting_t is a union of the unit fields and a 32 bit value:       *)
(* hours in the low byte, minutes, seconds, and repeat in the high byte.   *)
(***************************************************************************)
TimerValue(t) ==
    t.hours + 256 * t.minutes + 65536 * t.seconds
        + 16777216 * (IF t.repeat THEN 1 ELSE 0)

\* timer.value & 0xFFFFFF
TimerValue24(t) == TimerValue(t) % 16777216

ZeroTimer == [hours |-> 0, minutes |-> 0, seconds |-> 0, repeat |-> FALSE]

\* _default_timer_value = 0x000100
DefaultTimer == [hours |-> 0, minutes |-> 1, seconds |-> 0, repeat |-> FALSE]

Duration(t) == t.hours * 3600 + t.minutes * 60 + t.seconds

(***************************************************************************)
(* The handlers' helpers work on a record w of the variables they write:   *)
(* w.state, w.beeps_to_play, w.buzzer, w.tick_frequency, w.bg_task,        *)
(* w.bell, and the history w.plays                                         *)
(***************************************************************************)
World ==
    [state |-> state, beeps_to_play |-> beeps_to_play, buzzer |-> buzzer,
     tick_frequency |-> tick_frequency, bg_task |-> bg_task, bell |-> bell,
     plays |-> plays]

\* the variables before an event, for the history
Snapshot ==
    [state |-> state, beeps_to_play |-> beeps_to_play, buzzer |-> buzzer,
     tick_frequency |-> tick_frequency, bg_task |-> bg_task, bell |-> bell,
     rtc |-> rtc, active |-> active, plays |-> plays]

Handled(e) ==
    /\ event' = [face |-> "timer"] @@ e
    /\ before' = Snapshot
    /\ UNCHANGED alarm_vars

Becomes(w) ==
    /\ state' = w.state
    /\ beeps_to_play' = w.beeps_to_play
    /\ buzzer' = w.buzzer
    /\ tick_frequency' = w.tick_frequency
    /\ bg_task' = w.bg_task
    /\ bell' = w.bell
    /\ plays' = w.plays

\* the guard of _start
StartRefused(t) == TimerValue(t) = 0

_start(w, clock, with_beep) ==
    IF StartRefused(w.state.timer) THEN w
    ELSE
      LET now_ts == watch_utility_date_time_to_unix_time(
                        watch_rtc_get_date_time(clock), TzOffset)
          target_ts ==
              IF w.state.mode = "pausing"
              THEN now_ts + w.state.paused_left
              ELSE watch_utility_offset_timestamp(now_ts,
                       w.state.timer.hours, w.state.timer.minutes,
                       w.state.timer.seconds)
          target_dt == watch_utility_date_time_from_unix_time(target_ts, TzOffset)
      IN  [w EXCEPT !.state.now_ts = now_ts,
                    !.state.target_ts = target_ts,
                    !.state.mode = "running",
                    !.bg_task = ScheduleTask(target_dt),
                    !.bell = TRUE,
                    !.buzzer = IF with_beep THEN "start" ELSE @,
                    !.plays = IF with_beep THEN 0 ELSE @]

\* _draw: of the display only the bell indicator is kept
_draw(w) ==
    IF w.state.mode = "pausing"
    THEN [w EXCEPT !.bell = (w.state.pausing_seconds % 2 = 0)]
    ELSE w

_reset_KeepsTask(w) ==
    [w EXCEPT !.state.mode = "waiting", !.bell = FALSE]

_reset_KeepsIndicator(w) ==
    [w EXCEPT !.state.mode = "waiting", !.bg_task = NoTask]

_reset(w) ==
    [w EXCEPT !.state.mode = "waiting", !.bg_task = NoTask, !.bell = FALSE]

_resume_setting_KeepsCursor(w) ==
    [w EXCEPT !.state.mode = "waiting", !.tick_frequency = 1]

_resume_setting(w) ==
    [w EXCEPT !.state.settings_state = 0,
              !.state.mode = "waiting",
              !.tick_frequency = 1]

_settings_increment(w) ==
    CASE w.state.settings_state = 0 ->
            [w EXCEPT !.state.erase_timer_flag = ~@]
      [] w.state.settings_state = 1 ->
            [w EXCEPT !.state.timer.hours = (@ + 1) % 24]
      [] w.state.settings_state = 2 ->
            [w EXCEPT !.state.timer.minutes = (@ + 1) % 60]
      [] w.state.settings_state = 3 ->
            [w EXCEPT !.state.timer.seconds = (@ + 1) % 60]
      [] w.state.settings_state = 4 ->
            [w EXCEPT !.state.timer.repeat = ~@]
      [] OTHER -> w

_abort_quick_cycle_KeepsRate(w) ==
    IF w.state.quick_cycle
    THEN [w EXCEPT !.state.quick_cycle = FALSE]
    ELSE w

_abort_quick_cycle(w) ==
    IF w.state.quick_cycle
    THEN [w EXCEPT !.state.quick_cycle = FALSE, !.tick_frequency = 4]
    ELSE w

\* _check_for_signal: the world after the call; it returned true iff
\* w.beeps_to_play > 0
_check_for_signal(w) ==
    IF w.beeps_to_play > 0 THEN [w EXCEPT !.beeps_to_play = 0] ELSE w

(***************************************************************************)
(* The values a settings field may be incremented from in the model.       *)
(***************************************************************************)
Editable(v, modulus) == v < MaxEdit \/ v = modulus - 1

\* _settings_increment stays within the model's values
IncrementInBounds(st) ==
    CASE st.settings_state = 1 -> Editable(st.timer.hours, 24)
      [] st.settings_state = 2 -> Editable(st.timer.minutes, 60)
      [] st.settings_state = 3 -> Editable(st.timer.seconds, 60)
      [] OTHER -> TRUE

(***************************************************************************)
(* timer_face_setup. The timer starts as the default timer or as a timer   *)
(* an earlier edit has left: the run is followed from short timers, the    *)
(* editing from the default and from the timer with every field at its     *)
(* last value.                                                             *)
(***************************************************************************)
EditedTimers ==
    {DefaultTimer,
     [hours |-> 23, minutes |-> 59, seconds |-> 59, repeat |-> FALSE]}

StoredTimers ==
    {DefaultTimer,
     [hours |-> 0, minutes |-> 0, seconds |-> 1, repeat |-> FALSE],
     [hours |-> 0, minutes |-> 0, seconds |-> 1, repeat |-> TRUE],
     [hours |-> 0, minutes |-> 0, seconds |-> 0, repeat |-> TRUE]}

timer_face_setup(t) ==
    [mode |-> "waiting", now_ts |-> 0, target_ts |-> 0, paused_left |-> 0,
     pausing_seconds |-> 0, timer |-> t, settings_state |-> 0,
     erase_timer_flag |-> FALSE, quick_cycle |-> FALSE, loop_count |-> 0]

TimerSetup(timers) ==
    /\ \E t \in timers : state = timer_face_setup(t)
    /\ beeps_to_play = 0
    /\ buzzer = "idle"
    /\ tick_frequency = 1
    /\ bg_task = NoTask
    /\ bell = FALSE
    /\ rtc = 0
    /\ active = TRUE
    /\ expiries = 0
    /\ plays = 0

(***************************************************************************)
(* The events of timer_face_loop.                                          *)
(***************************************************************************)

\* EVENT_TICK. held is the level of the alarm button's pin; second tells
\* whether the tick falls on a second of the real-time clock (every tick
\* does at 1 Hz).
TickHandler(w, held) ==
    _draw(
      IF w.state.mode = "running" THEN [w EXCEPT !.state.now_ts = @ + 1]
      ELSE IF w.state.mode = "pausing"
           THEN [w EXCEPT !.state.pausing_seconds = U8(@ + 1)]
      ELSE IF w.state.quick_cycle
           THEN IF held THEN _settings_increment(w) ELSE _abort_quick_cycle(w)
      ELSE w)

TimerTick(held, second) ==
    /\ Handled([type |-> "tick", held |-> held, second |-> second])
    /\ active
    /\ tick_frequency = 1 => second
    /\ second => rtc < MaxClock
    /\ state.mode = "pausing" => state.pausing_seconds < MaxPausingSeconds
    /\ (state.mode = "running" /\ ~second) => state.now_ts - rtc < MaxAhead
    /\ (state.mode \notin {"running", "pausing"} /\ state.quick_cycle /\ held)
          => IncrementInBounds(state)
    /\ Becomes(TickHandler(World, held))
    /\ rtc' = IF second THEN rtc + 1 ELSE rtc
    /\ UNCHANGED <<active, expiries>>

\* the repeat position is skipped: settings_state == 4 and
\* (timer.value & 0xFFFFFF) == 0
RepeatSkipped_Unmasked(st) == st.settings_state = 4 /\ TimerValue(st.timer) = 0

RepeatSkipped(st) == st.settings_state = 4 /\ TimerValue24(st.timer) = 0

\* EVENT_LIGHT_BUTTON_UP
LightButtonUpHandler_KeepsEraseFlag(w) ==
    _draw(
      IF w.state.mode = "setting"
      THEN LET e == IF w.state.erase_timer_flag
                    THEN [w EXCEPT !.state.timer = ZeroTimer]
                    ELSE w
               n == [e EXCEPT !.state.settings_state = (@ + 1) % 5]
           IN  IF n.state.settings_state = 0 THEN _resume_setting(n)
               ELSE IF RepeatSkipped(n.state)
                    THEN [n EXCEPT !.state.settings_state = 1]
               ELSE n
      ELSE w)

LightButtonUpHandler(w) ==
    _draw(
      IF w.state.mode = "setting"
      THEN LET e == IF w.state.erase_timer_flag
                    THEN [w EXCEPT !.state.timer = ZeroTimer,
                                   !.state.erase_timer_flag = FALSE]
                    ELSE w
               n == [e EXCEPT !.state.settings_state = (@ + 1) % 5]
           IN  IF n.state.settings_state = 0 THEN _resume_setting(n)
               ELSE IF RepeatSkipped(n.state)
                    THEN [n EXCEPT !.state.settings_state = 1]
               ELSE n
      ELSE w)

TimerLightButtonUp ==
    /\ Handled([type |-> "light_button_up"])
    /\ active
    /\ Becomes(LightButtonUpHandler(World))
    /\ UNCHANGED <<rtc, active, expiries>>

\* state->paused_left = state->target_ts - state->now_ts
PausedLeft_Swapped(st) == st.now_ts - st.target_ts

PausedLeft(st) == st.target_ts - st.now_ts

AlarmButtonUpHandler_FallsThrough(w, clock) ==
    LET a == _check_for_signal(_abort_quick_cycle(w))
    IN  _draw(
          CASE a.state.mode = "running" ->
                 [a EXCEPT !.state.mode = "pausing",
                           !.state.pausing_seconds = 0,
                           !.state.paused_left = PausedLeft(a.state),
                           !.bg_task = NoTask]
            [] a.state.mode = "pausing" -> _start(a, clock, FALSE)
            [] a.state.mode = "waiting" -> a
            [] a.state.mode = "setting" -> _settings_increment(a))

\* EVENT_ALARM_BUTTON_UP
AlarmButtonUpHandler(w, clock) ==
    LET a == _abort_quick_cycle(w)
    IN  IF a.beeps_to_play > 0 THEN _check_for_signal(a)
        ELSE _draw(
          CASE a.state.mode = "running" ->
                 [a EXCEPT !.state.mode = "pausing",
                           !.state.pausing_seconds = 0,
                           !.state.paused_left = PausedLeft(a.state),
                           !.bg_task = NoTask]
            [] a.state.mode = "pausing" -> _start(a, clock, FALSE)
            [] a.state.mode = "waiting" -> a
            [] a.state.mode = "setting" -> _settings_increment(a))

TimerAlarmButtonUp ==
    /\ Handled([type |-> "alarm_button_up"])
    /\ active
    /\ (state.mode = "setting" /\ beeps_to_play = 0) => IncrementInBounds(state)
    /\ Becomes(AlarmButtonUpHandler(World, rtc))
    /\ UNCHANGED <<rtc, active, expiries>>

\* EVENT_LIGHT_LONG_PRESS
LightLongPressHandler(w) ==
    _draw(
      IF w.state.mode = "waiting"
      THEN [w EXCEPT !.state.mode = "setting",
                     !.state.settings_state = 0,
                     !.state.erase_timer_flag = FALSE,
                     !.tick_frequency = 4]
      ELSE IF w.state.mode = "setting" THEN _resume_setting(w)
      ELSE w)

TimerLightLongPress ==
    /\ Handled([type |-> "light_long_press"])
    /\ active
    /\ Becomes(LightLongPressHandler(World))
    /\ UNCHANGED <<rtc, active, expiries>>

AlarmLongPressHandler_KeepsLoopCount(w, clock) ==
    _draw(
      CASE w.state.mode = "setting" ->
             IF w.state.settings_state \in {1, 2, 3}
             THEN [w EXCEPT !.state.quick_cycle = TRUE, !.tick_frequency = 8]
             ELSE w
        [] w.state.mode = "waiting" -> _start(w, clock, TRUE)
        [] w.state.mode \in {"pausing", "running"} -> _reset(w))

\* EVENT_ALARM_LONG_PRESS
AlarmLongPressHandler(w, clock) ==
    _draw(
      CASE w.state.mode = "setting" ->
             IF w.state.settings_state \in {1, 2, 3}
             THEN [w EXCEPT !.state.quick_cycle = TRUE, !.tick_frequency = 8]
             ELSE w
        [] w.state.mode = "waiting" -> _start(w, clock, TRUE)
        [] w.state.mode \in {"pausing", "running"} ->
             [_reset(w) EXCEPT !.state.loop_count = 0])

TimerAlarmLongPress ==
    /\ Handled([type |-> "alarm_long_press"])
    /\ active
    /\ Becomes(AlarmLongPressHandler(World, rtc))
    /\ expiries' = IF state.mode \in {"pausing", "running"} THEN 0 ELSE expiries
    /\ UNCHANGED <<rtc, active>>

\* EVENT_ALARM_LONG_UP
TimerAlarmLongUp ==
    /\ Handled([type |-> "alarm_long_up"])
    /\ active
    /\ Becomes(_abort_quick_cycle(World))
    /\ UNCHANGED <<rtc, active, expiries>>

\* state->loop_count = (state->loop_count + 1) % 10
NextLoopCount_NoWrap(n) == n + 1

NextLoopCount(n) == (n + 1) % 10

\* EVENT_BACKGROUND_TASK: the host delivers it once the clock has reached
\* the scheduled date-time, whether the face is shown or not, and drops
\* the request.
BackgroundTaskHandler(w, clock) ==
    LET b == [w EXCEPT !.beeps_to_play = 4, !.buzzer = "beep", !.plays = 1]
        r == _reset(b)
    IN  IF r.state.timer.repeat
        THEN _start([r EXCEPT !.state.loop_count = NextLoopCount(@)], clock, FALSE)
        ELSE [r EXCEPT !.state.loop_count = 0]

TaskDue ==
    /\ bg_task.scheduled
    /\ DateTimeReached(bg_task.dt, watch_rtc_get_date_time(rtc))

TimerBackgroundTask ==
    /\ Handled([type |-> "background_task"])
    /\ TaskDue
    /\ expiries < MaxExpiries
    /\ Becomes(BackgroundTaskHandler([World EXCEPT !.bg_task = NoTask], rtc))
    /\ expiries' = IF state.timer.repeat THEN expiries + 1 ELSE 0
    /\ UNCHANGED <<rtc, active>>

\* _signal_callback, called by the buzzer when the beep sequence ends
_signal_callback(w) ==
    IF w.beeps_to_play > 0
    THEN [w EXCEPT !.beeps_to_play = @ - 1, !.buzzer = "beep",
                   !.plays = @ + 1]
    ELSE [w EXCEPT !.buzzer = "idle", !.plays = 0]

TimerSignalCallback ==
    /\ Handled([type |-> "signal_callback"])
    /\ buzzer = "beep"
    /\ Becomes(_signal_callback(World))
    /\ UNCHANGED <<rtc, active, expiries>>

\* the start sequence has no callback
TimerSequenceEnds ==
    /\ Handled([type |-> "sequence_ends"])
    /\ buzzer = "start"
    /\ buzzer' = "idle"
    /\ UNCHANGED <<state, beeps_to_play, tick_frequency, bg_task, bell, rtc,
                   active, expiries, plays>>

timer_face_resign_KeepsMode(w) ==
    IF w.state.mode = "setting"
    THEN [w EXCEPT !.state.settings_state = 0]
    ELSE w

\* EVENT_TIMEOUT and EVENT_MODE_LONG_PRESS: back to face 0, which makes
\* the host resign this face
timer_face_resign(w) ==
    IF w.state.mode = "setting"
    THEN [w EXCEPT !.state.settings_state = 0, !.state.mode = "waiting"]
    ELSE w

TimerTimeout ==
    /\ Handled([type |-> "timeout"])
    /\ active
    /\ Becomes(timer_face_resign(_abort_quick_cycle(World)))
    /\ active' = FALSE
    /\ UNCHANGED <<rtc, expiries>>

\* the host moves to another face
TimerResign ==
    /\ Handled([type |-> "resign"])
    /\ active
    /\ Becomes(timer_face_resign(World))
    /\ active' = FALSE
    /\ UNCHANGED <<rtc, expiries>>

\* timer_face_activate, then EVENT_ACTIVATE
timer_face_activate(w, clock) ==
    IF w.state.mode = "running"
    THEN [w EXCEPT !.state.now_ts =
                       watch_utility_date_time_to_unix_time(
                           watch_rtc_get_date_time(clock), TzOffset),
                   !.bell = TRUE]
    ELSE [w EXCEPT !.state.pausing_seconds = 1, !.beeps_to_play = 0]

TimerActivate ==
    /\ Handled([type |-> "activate"])
    /\ ~active
    /\ Becomes(_draw(timer_face_activate(World, rtc)))
    /\ active' = TRUE
    /\ UNCHANGED <<rtc, expiries>>

\* a second passes while another face is shown
ClockAdvance ==
    /\ Handled([type |-> "clock"])
    /\ ~active
    /\ rtc < MaxClock
    /\ rtc' = rtc + 1
    /\ UNCHANGED <<state, beeps_to_play, buzzer, tick_frequency, bg_task, bell,
                   active, expiries, plays>>

(***************************************************************************)
(* The alarm face (alarm_face.c).                                          *)
(***************************************************************************)
\* alarm.day: 0..6 are Monday..Sunday, then each day, workdays, weekend
\* (_dow_strings "MO" .. "SU", "AL", "MF", "WN")
ALARM_DAY_EACH_DAY == 7

ALARM_DAY_WORKDAY == 8

ALARM_DAY_WEEKEND == 9

ALARM_DAY_STATES == 10

ALARM_MAX_BEEP_ROUNDS == 11

ALARM_SETTING_STATES == 5

\* alarm_setting_idx_t
alarm_setting_idx_day == 0

alarm_setting_idx_hour == 1

alarm_setting_idx_minute == 2

alarm_setting_idx_pitch == 3

alarm_setting_idx_beeps == 4

(***************************************************************************)
(* The real-time clock's date and time, as watch_rtc_get_date_time gives   *)
(* it: year (an offset from 2020), month, day, hour, minute.               *)
(***************************************************************************)
DaysInMonth(year, month) ==
    IF month = 2
    THEN (IF (2020 + year) % 4 = 0 THEN 29 ELSE 28)
    ELSE IF month \in {4, 6, 9, 11} THEN 30 ELSE 31

\* the clock a minute later
NextMinute(dt) ==
    IF dt.minute < 59 THEN [dt EXCEPT !.minute = @ + 1]
    ELSE IF dt.hour < 23 THEN [dt EXCEPT !.minute = 0, !.hour = @ + 1]
    ELSE IF dt.day < DaysInMonth(dt.year, dt.month)
    THEN [dt EXCEPT !.minute = 0, !.hour = 0, !.day = @ + 1]
    ELSE IF dt.month < 12
    THEN [dt EXCEPT !.minute = 0, !.hour = 0, !.day = 1, !.month = @ + 1]
    ELSE [dt EXCEPT !.minute = 0, !.hour = 0, !.day = 1, !.month = 1,
                    !.year = @ + 1]

\* _get_weekday_idx. date_time is the function's own copy of the clock's
\* value; its unit.year is a field of 6 bits and its unit.month a field of
\* 4 bits, which the assignments to them truncate.
_get_weekday_idx(date_time) ==
    LET year20 == (date_time.year + 20) % 64
        month  == IF date_time.month <= 2
                  THEN (date_time.month + 12) % 16
                  ELSE date_time.month
        year   == IF date_time.month <= 2 THEN (year20 - 1) % 64 ELSE year20
    IN  (date_time.day + (13 * (month + 1)) \div 5 + year + year \div 4
            + 525 - 2) % 7

(***************************************************************************)
(* The handlers' helpers work on a record a of the variables they write:   *)
(* a.state, a.wait_ticks, a.tick_frequency, a.alarm_enabled, a.sound       *)
(***************************************************************************)
AlarmWorld ==
    [state |-> alarm_state, wait_ticks |-> _wait_ticks,
     tick_frequency |-> alarm_tick_frequency,
     alarm_enabled |-> alarm_enabled, sound |-> alarm_sound]

\* the variables before an event, for the history
AlarmSnapshot ==
    [state |-> alarm_state, wait_ticks |-> _wait_ticks,
     tick_frequency |-> alarm_tick_frequency,
     alarm_enabled |-> alarm_enabled, sound |-> alarm_sound,
     now |-> now, active |-> alarm_active, held |-> alarm_held]

AlarmHandled(e) ==
    /\ event' = [face |-> "alarm"] @@ e
    /\ before' = AlarmSnapshot
    /\ UNCHANGED timer_vars

AlarmBecomes(a) ==
    /\ alarm_state' = a.state
    /\ _wait_ticks' = a.wait_ticks
    /\ alarm_tick_frequency' = a.tick_frequency
    /\ alarm_enabled' = a.alarm_enabled
    /\ alarm_sound' = a.sound

_alarm_initiate_setting(a) ==
    [a EXCEPT !.state.is_setting = TRUE, !.state.setting_state = 0,
              !.tick_frequency = 4]

_alarm_resume_setting(a) ==
    [a EXCEPT !.state.is_setting = FALSE, !.tick_frequency = 1]

\* the times are compared with > and <: an alarm set to the minute the
\* clock shows is left out
_alarm_update_alarm_enabled_Strict(a, clock) ==
    LET alarm == a.state.alarm
        weekday_idx == _get_weekday_idx(clock)
        now_minutes_of_day == clock.hour * 60 + clock.minute
        alarm_minutes_of_day == alarm.hour * 60 + alarm.minute
        active_alarms ==
          /\ alarm.enabled
          /\ \/ alarm.day = ALARM_DAY_EACH_DAY
             \/ /\ alarm.day = weekday_idx
                /\ alarm_minutes_of_day > now_minutes_of_day
             \/ /\ (weekday_idx + 1) % 7 = alarm.day
                /\ alarm_minutes_of_day < now_minutes_of_day
             \/ /\ alarm.day = ALARM_DAY_WORKDAY
                /\ \/ weekday_idx < 4
                   \/ /\ weekday_idx = 4
                      /\ alarm_minutes_of_day > now_minutes_of_day
                   \/ /\ weekday_idx = 6
                      /\ alarm_minutes_of_day < now_minutes_of_day
             \/ /\ alarm.day = ALARM_DAY_WEEKEND
                /\ \/ weekday_idx = 5
                   \/ /\ weekday_idx = 6
                      /\ alarm_minutes_of_day > now_minutes_of_day
                   \/ /\ weekday_idx = 4
                      /\ alarm_minutes_of_day < now_minutes_of_day
    IN  [a EXCEPT !.alarm_enabled = active_alarms]

\* _alarm_update_alarm_enabled: will the alarm go off in the next 24 h
_alarm_update_alarm_enabled(a, clock) ==
    LET alarm == a.state.alarm
        weekday_idx == _get_weekday_idx(clock)
        now_minutes_of_day == clock.hour * 60 + clock.minute
        alarm_minutes_of_day == alarm.hour * 60 + alarm.minute
        active_alarms ==
          /\ alarm.enabled
          /\ \/ alarm.day = ALARM_DAY_EACH_DAY
             \/ /\ alarm.day = weekday_idx
                /\ alarm_minutes_of_day >= now_minutes_of_day
             \/ /\ (weekday_idx + 1) % 7 = alarm.day
                /\ alarm_minutes_of_day <= now_minutes_of_day
             \/ /\ alarm.day = ALARM_DAY_WORKDAY
                /\ \/ weekday_idx < 4
                   \/ /\ weekday_idx = 4
                      /\ alarm_minutes_of_day >= now_minutes_of_day
                   \/ /\ weekday_idx = 6
                      /\ alarm_minutes_of_day <= now_minutes_of_day
             \/ /\ alarm.day = ALARM_DAY_WEEKEND
                /\ \/ weekday_idx = 5
                   \/ /\ weekday_idx = 6
                      /\ alarm_minutes_of_day >= now_minutes_of_day
                   \/ /\ weekday_idx = 4
                      /\ alarm_minutes_of_day <= now_minutes_of_day
    IN  [a EXCEPT !.alarm_enabled = active_alarms]

\* _alarm_play_short_beep
_alarm_play_short_beep(a) == [a EXCEPT !.sound = [kind |-> "short", rounds |-> 0]]

\* movement_play_alarm_beeps(rounds, note)
movement_play_alarm_beeps(a, rounds) ==
    [a EXCEPT !.sound = [kind |-> "beeps", rounds |-> rounds]]

_alarm_indicate_beep(a) ==
    IF a.state.alarm.beeps = 0
    THEN _alarm_play_short_beep(a)
    ELSE movement_play_alarm_beeps(a, 1)

_abort_quick_ticks(a) ==
    IF a.state.alarm_quick_ticks
    THEN [a EXCEPT !.state.alarm_quick_ticks = FALSE, !.tick_frequency = 4]
    ELSE a

(***************************************************************************)
(* alarm_face_setup. The alarm starts as the default alarm or as an alarm  *)
(* an earlier edit has left; the editing is followed from the default and  *)
(* from the alarms with one field at its last value.                       *)
(***************************************************************************)
DefaultAlarm ==
    [day |-> ALARM_DAY_EACH_DAY, hour |-> 0, minute |-> 0, pitch |-> 1,
     beeps |-> 5, enabled |-> FALSE]

EditedAlarms ==
    {DefaultAlarm,
     [DefaultAlarm EXCEPT !.day = ALARM_DAY_STATES - 1],
     [DefaultAlarm EXCEPT !.hour = 23],
     [DefaultAlarm EXCEPT !.minute = 59],
     [DefaultAlarm EXCEPT !.pitch = 2],
     [DefaultAlarm EXCEPT !.beeps = ALARM_MAX_BEEP_ROUNDS - 1]}

alarm_face_setup(alarm) ==
    [alarm |-> alarm, is_setting |-> FALSE, setting_state |-> 0,
     alarm_quick_ticks |-> FALSE, alarm_handled_minute |-> -1]

\* Friday 2024-03-01, 12:00
AlarmClock == [year |-> 4, month |-> 3, day |-> 1, hour |-> 12, minute |-> 0]

\* shown tells whether the alarm face is the face shown
AlarmSetupAs(alarms, clocks, shown) ==
    /\ \E alarm \in alarms : alarm_state = alarm_face_setup(alarm)
    /\ _wait_ticks = -1
    /\ alarm_tick_frequency = 1
    /\ alarm_enabled = FALSE
    /\ alarm_sound = [kind |-> "none", rounds |-> 0]
    /\ now \in clocks
    /\ alarm_active = shown
    /\ alarm_held = FALSE
    /\ background_due = FALSE
    /\ checked = [minutes |-> 0, checks |-> 0, fires |-> 0, total_fires |-> 0]

AlarmSetup(alarms, clocks) == AlarmSetupAs(alarms, clocks, TRUE)

\* the field under the cursor can be incremented within the bounds
AlarmIncrementInBounds(st) ==
    CASE st.setting_state = alarm_setting_idx_day ->
           Editable(st.alarm.day, ALARM_DAY_STATES)
      [] st.setting_state = alarm_setting_idx_hour ->
           Editable(st.alarm.hour, 24)
      [] st.setting_state = alarm_setting_idx_minute ->
           Editable(st.alarm.minute, 60)
      [] st.setting_state = alarm_setting_idx_pitch ->
           Editable(st.alarm.pitch, 3)
      [] st.setting_state = alarm_setting_idx_beeps ->
           Editable(st.alarm.beeps, ALARM_MAX_BEEP_ROUNDS)
      [] OTHER -> TRUE

(***************************************************************************)
(* The events of alarm_face_loop.                                          *)
(***************************************************************************)

\* EVENT_TICK
AlarmFaceTickHandler(a) ==
    IF a.state.alarm_quick_ticks
    THEN IF a.state.setting_state = alarm_setting_idx_hour
         THEN [a EXCEPT !.state.alarm.hour = (@ + 1) % 24]
         ELSE IF a.state.setting_state = alarm_setting_idx_minute
         THEN [a EXCEPT !.state.alarm.minute = (@ + 1) % 60]
         ELSE _abort_quick_ticks(a)
    ELSE IF ~a.state.is_setting
    THEN LET c == IF a.wait_ticks >= 0
                  THEN [a EXCEPT !.wait_ticks = @ + 1]
                  ELSE a
         IN  IF c.wait_ticks = 2
             THEN [c EXCEPT !.wait_ticks = -1,
                            !.state.alarm.enabled = ~@]
             ELSE c
    ELSE a

AlarmFaceTick ==
    /\ AlarmHandled([type |-> "tick"])
    /\ alarm_active
    /\ alarm_state.alarm_quick_ticks => AlarmIncrementInBounds(alarm_state)
    /\ AlarmBecomes(AlarmFaceTickHandler(AlarmWorld))
    /\ UNCHANGED <<now, alarm_active, alarm_held, background_due, checked>>

\* EVENT_LIGHT_BUTTON_UP
AlarmFaceLightButtonUpHandler(a) ==
    IF ~a.state.is_setting
    THEN a
    ELSE LET n == [a EXCEPT !.state.setting_state = @ + 1]
         IN  IF n.state.setting_state >= ALARM_SETTING_STATES
             THEN _alarm_resume_setting(n)
             ELSE n

AlarmFaceLightButtonUp ==
    /\ AlarmHandled([type |-> "light_button_up"])
    /\ alarm_active
    /\ AlarmBecomes(AlarmFaceLightButtonUpHandler(AlarmWorld))
    /\ UNCHANGED <<now, alarm_active, alarm_held, background_due, checked>>

\* EVENT_LIGHT_LONG_PRESS
AlarmFaceLightLongPressHandler(a) ==
    IF a.state.is_setting
    THEN _alarm_resume_setting(a)
    ELSE _alarm_initiate_setting(a)

AlarmFaceLightLongPress ==
    /\ AlarmHandled([type |-> "light_long_press"])
    /\ alarm_active
    /\ AlarmBecomes(AlarmFaceLightLongPressHandler(AlarmWorld))
    /\ UNCHANGED <<now, alarm_active, alarm_held, background_due, checked>>

\* EVENT_ALARM_BUTTON_UP
AlarmFaceAlarmButtonUpHandler(a) ==
    IF ~a.state.is_setting
    THEN [a EXCEPT !.wait_ticks = -1]
    ELSE CASE a.state.setting_state = alarm_setting_idx_day ->
                [a EXCEPT !.state.alarm.day = (@ + 1) % ALARM_DAY_STATES]
           [] a.state.setting_state = alarm_setting_idx_hour ->
                [_abort_quick_ticks(a) EXCEPT
                    !.state.alarm.hour = (@ + 1) % 24]
           [] a.state.setting_state = alarm_setting_idx_minute ->
                [_abort_quick_ticks(a) EXCEPT
                    !.state.alarm.minute = (@ + 1) % 60]
           [] a.state.setting_state = alarm_setting_idx_pitch ->
                _alarm_indicate_beep(
                    [a EXCEPT !.state.alarm.pitch = (@ + 1) % 3])
           [] a.state.setting_state = alarm_setting_idx_beeps ->
                LET n == [a EXCEPT !.state.alarm.beeps =
                                       (@ + 1) % ALARM_MAX_BEEP_ROUNDS]
                IN  IF n.state.alarm.beeps <= 1
                    THEN _alarm_indicate_beep(n)
                    ELSE n
           [] OTHER -> a

\* the release of a press too short for a long press
AlarmFaceAlarmButtonUp ==
    /\ AlarmHandled([type |-> "alarm_button_up"])
    /\ alarm_active
    /\ ~alarm_held
    /\ alarm_state.is_setting => AlarmIncrementInBounds(alarm_state)
    /\ AlarmBecomes(AlarmFaceAlarmButtonUpHandler(AlarmWorld))
    /\ UNCHANGED <<now, alarm_active, alarm_held, background_due, checked>>

\* EVENT_ALARM_LONG_PRESS
AlarmFaceAlarmLongPressHandler(a) ==
    IF ~a.state.is_setting
    THEN [a EXCEPT !.state.alarm.enabled = ~@, !.wait_ticks = 0]
    ELSE IF a.state.setting_state
              \in {alarm_setting_idx_minute, alarm_setting_idx_hour}
    THEN [a EXCEPT !.tick_frequency = 8, !.state.alarm_quick_ticks = TRUE]
    ELSE a

AlarmFaceAlarmLongPress ==
    /\ AlarmHandled([type |-> "alarm_long_press"])
    /\ alarm_active
    /\ ~alarm_held
    /\ AlarmBecomes(AlarmFaceAlarmLongPressHandler(AlarmWorld))
    /\ alarm_held' = TRUE
    /\ UNCHANGED <<now, alarm_active, background_due, checked>>

\* EVENT_ALARM_LONG_UP
AlarmFaceAlarmLongUpHandler(a) ==
    IF a.state.is_setting
    THEN IF a.state.setting_state
              \in {alarm_setting_idx_hour, alarm_setting_idx_minute}
         THEN _abort_quick_ticks(a)
         ELSE a
    ELSE [a EXCEPT !.wait_ticks = -1]

\* the release of the button after a long press
AlarmFaceAlarmLongUp ==
    /\ AlarmHandled([type |-> "alarm_long_up"])
    /\ alarm_active
    /\ alarm_held
    /\ AlarmBecomes(AlarmFaceAlarmLongUpHandler(AlarmWorld))
    /\ alarm_held' = FALSE
    /\ UNCHANGED <<now, alarm_active, background_due, checked>>

\* EVENT_BACKGROUND_TASK
AlarmFaceBackgroundTaskHandler(a) ==
    IF a.state.alarm.beeps = 0
    THEN _alarm_play_short_beep(a)
    ELSE movement_play_alarm_beeps(a,
             IF a.state.alarm.beeps = ALARM_MAX_BEEP_ROUNDS - 1
             THEN 20
             ELSE a.state.alarm.beeps)

\* the host delivers the event after a fire check that has returned true
AlarmFaceBackgroundTask ==
    /\ AlarmHandled([type |-> "background_task"])
    /\ background_due
    /\ AlarmBecomes(AlarmFaceBackgroundTaskHandler(AlarmWorld))
    /\ background_due' = FALSE
    /\ UNCHANGED <<now, alarm_active, alarm_held, checked>>

\* alarm_face_resign
alarm_face_resign(a, clock) ==
    LET u == _alarm_update_alarm_enabled(
                 [a EXCEPT !.state.is_setting = FALSE], clock)
    IN  [u EXCEPT !.state.alarm_quick_ticks = FALSE, !.wait_ticks = -1,
                  !.tick_frequency = 1]

\* EVENT_TIMEOUT: back to face 0, which makes the host resign this face
AlarmFaceTimeout ==
    /\ AlarmHandled([type |-> "timeout"])
    /\ alarm_active
    /\ AlarmBecomes(alarm_face_resign(AlarmWorld, now))
    /\ alarm_active' = FALSE
    /\ alarm_held' = FALSE
    /\ UNCHANGED <<now, background_due, checked>>

\* the host moves to another face, which gets the button's later events
AlarmFaceResign ==
    /\ AlarmHandled([type |-> "resign"])
    /\ alarm_active
    /\ AlarmBecomes(alarm_face_resign(AlarmWorld, now))
    /\ alarm_active' = FALSE
    /\ alarm_held' = FALSE
    /\ UNCHANGED <<now, background_due, checked>>

\* alarm_face_activate, then EVENT_ACTIVATE: the face is drawn
AlarmFaceActivate ==
    /\ AlarmHandled([type |-> "activate"])
    /\ ~alarm_active
    /\ alarm_active' = TRUE
    /\ UNCHANGED <<alarm_state, _wait_ticks, alarm_tick_frequency,
                   alarm_enabled, alarm_sound, now, alarm_held,
                   background_due, checked>>

(***************************************************************************)
(* Spec: the timer is run and its face left and shown again; the settings  *)
(* are not entered.                                                        *)
(***************************************************************************)
Init ==
    /\ TimerSetup(StoredTimers)
    /\ AlarmSetup({DefaultAlarm}, {AlarmClock})
    /\ event = [type |-> "setup"]
    /\ before = Snapshot

Next ==
    \/ \E held \in BOOLEAN, second \in BOOLEAN : TimerTick(held, second)
    \/ TimerLightButtonUp
    \/ TimerAlarmButtonUp
    \/ TimerAlarmLongPress
    \/ TimerAlarmLongUp
    \/ TimerBackgroundTask
    \/ TimerSignalCallback
    \/ TimerSequenceEnds
    \/ TimerResign
    \/ TimerActivate
    \/ ClockAdvance

Spec == Init /\ [][Next]_vars

\* The buzzer calls the callback of the sequence it plays when that
\* sequence ends: a callback that is due is delivered in the end.
BeepSpec == Spec /\ WF_vars(TimerSignalCallback)

(***************************************************************************)
(* SettingSpec: the settings are edited, up to the start of the timer,     *)
(* from a timer just set up or from one that has just expired.             *)
(***************************************************************************)
\* the timer face after a timer of one second, started at clock 0, has
\* expired at clock 1: waiting, with the beeps still playing
ExpiredTimer ==
    LET t  == [hours |-> 0, minutes |-> 0, seconds |-> 1, repeat |-> FALSE]
        w0 == [state |-> timer_face_setup(t), beeps_to_play |-> 0,
               buzzer |-> "idle", tick_frequency |-> 1, bg_task |-> NoTask,
               bell |-> FALSE, plays |-> 0]
        w1 == _draw(_start(w0, 0, TRUE))
        w2 == TickHandler(w1, FALSE)
    IN  BackgroundTaskHandler([w2 EXCEPT !.bg_task = NoTask], 1)

TimerExpiredSetup ==
    /\ state = ExpiredTimer.state
    /\ beeps_to_play = ExpiredTimer.beeps_to_play
    /\ buzzer = ExpiredTimer.buzzer
    /\ tick_frequency = ExpiredTimer.tick_frequency
    /\ bg_task = ExpiredTimer.bg_task
    /\ bell = ExpiredTimer.bell
    /\ rtc = 1
    /\ active = TRUE
    /\ expiries = 0
    /\ plays = ExpiredTimer.plays

SettingInit ==
    /\ TimerSetup(EditedTimers) \/ TimerExpiredSetup
    /\ AlarmSetup({DefaultAlarm}, {AlarmClock})
    /\ event = [type |-> "setup"]
    /\ before = Snapshot

NotStarted == state.mode # "running"

SettingNext ==
    \/ \E held \in BOOLEAN, second \in BOOLEAN :
          NotStarted /\ TimerTick(held, second)
    \/ NotStarted /\ TimerLightButtonUp
    \/ NotStarted /\ TimerAlarmButtonUp
    \/ NotStarted /\ TimerLightLongPress
    \/ NotStarted /\ TimerAlarmLongPress
    \/ NotStarted /\ TimerAlarmLongUp
    \/ NotStarted /\ TimerTimeout
    \/ NotStarted /\ TimerResign
    \/ NotStarted /\ TimerActivate
    \/ NotStarted /\ TimerSignalCallback

SettingSpec == SettingInit /\ [][SettingNext]_vars

(***************************************************************************)
(* StaleSpec: the run of a timer after an edit that was left by a light    *)
(* long-press while a quick cycle was on: EVENT_LIGHT_LONG_PRESS, cursor   *)
(* to the hours, EVENT_ALARM_LONG_PRESS, EVENT_LIGHT_LONG_PRESS. The state *)
(* is the one the handlers compute.                                        *)
(***************************************************************************)
StaleTimer(t) ==
    LET w0 == [state |-> timer_face_setup(t), beeps_to_play |-> 0,
               buzzer |-> "idle", tick_frequency |-> 1, bg_task |-> NoTask,
               bell |-> FALSE, plays |-> 0]
        w1 == LightLongPressHandler(w0)
        w2 == LightButtonUpHandler(w1)
        w3 == AlarmLongPressHandler(w2, 0)
    IN  LightLongPressHandler(w3)

TimerStaleSetup ==
    /\ \E t \in StoredTimers :
          /\ state = StaleTimer(t).state
          /\ beeps_to_play = StaleTimer(t).beeps_to_play
          /\ buzzer = StaleTimer(t).buzzer
          /\ tick_frequency = StaleTimer(t).tick_frequency
          /\ bg_task = StaleTimer(t).bg_task
          /\ bell = StaleTimer(t).bell
          /\ plays = StaleTimer(t).plays
    /\ rtc = 0
    /\ active = TRUE
    /\ expiries = 0

StaleInit ==
    /\ TimerStaleSetup
    /\ AlarmSetup({DefaultAlarm}, {AlarmClock})
    /\ event = [type |-> "setup"]
    /\ before = Snapshot

\* the timer is started, reset and left to run; the face stays shown and
\* the buzzer is left to itself
StaleNext ==
    \/ \E held \in BOOLEAN, second \in BOOLEAN : TimerTick(held, second)
    \/ TimerLightButtonUp
    \/ TimerAlarmLongPress
    \/ TimerAlarmLongUp
    \/ TimerBackgroundTask

StaleSpec == StaleInit /\ [][StaleNext]_vars

(***************************************************************************)
(* alarm_face_wants_background_task, the fire check the host makes every   *)
(* minute: the new state and the result.                                   *)
(***************************************************************************)
alarm_face_wants_background_task_Unguarded(a, clock) ==
    LET alarm == a.state.alarm
        weekday_idx == _get_weekday_idx(clock)
        h == [a EXCEPT !.state.alarm_handled_minute = clock.minute]
        r == [h EXCEPT !.state.alarm_handled_minute = -1]
    IN  IF /\ alarm.enabled
           /\ alarm.minute = clock.minute
           /\ alarm.hour = clock.hour
           /\ \/ alarm.day = ALARM_DAY_EACH_DAY
              \/ alarm.day = weekday_idx
              \/ alarm.day = ALARM_DAY_WORKDAY /\ weekday_idx < 5
              \/ alarm.day = ALARM_DAY_WEEKEND /\ weekday_idx >= 5
        THEN [world |-> h, result |-> TRUE]
        ELSE [world |-> IF clock.minute % 12 = 0
                        THEN _alarm_update_alarm_enabled(r, clock)
                        ELSE r,
              result |-> FALSE]

alarm_face_wants_background_task(a, clock) ==
    LET alarm == a.state.alarm
        weekday_idx == _get_weekday_idx(clock)
        h == [a EXCEPT !.state.alarm_handled_minute = clock.minute]
        r == [h EXCEPT !.state.alarm_handled_minute = -1]
    IN  IF a.state.alarm_handled_minute = clock.minute
        THEN [world |-> a, result |-> FALSE]
        ELSE IF /\ alarm.enabled
                /\ alarm.minute = clock.minute
                /\ alarm.hour = clock.hour
                /\ \/ alarm.day = ALARM_DAY_EACH_DAY
                   \/ alarm.day = weekday_idx
                   \/ alarm.day = ALARM_DAY_WORKDAY /\ weekday_idx < 5
                   \/ alarm.day = ALARM_DAY_WEEKEND /\ weekday_idx >= 5
        THEN [world |-> h, result |-> TRUE]
        ELSE [world |-> IF clock.minute % 12 = 0
                        THEN _alarm_update_alarm_enabled(r, clock)
                        ELSE r,
              result |-> FALSE]

\* the host makes a fire check, the first of the minute or a further one
FireCheck ==
    LET c == alarm_face_wants_background_task(AlarmWorld, now)
        fired == IF c.result THEN 1 ELSE 0
    IN  /\ AlarmHandled([type |-> "fire_check", first |-> checked.checks = 0,
                         result |-> c.result])
        /\ ~background_due
        /\ checked.checks < MaxChecks
        /\ AlarmBecomes(c.world)
        /\ background_due' = c.result
        /\ checked' = [checked EXCEPT !.checks = @ + 1,
                                      !.fires = @ + fired,
                                      !.total_fires = @ + fired]
        /\ UNCHANGED <<now, alarm_active, alarm_held>>

\* the clock reaches the next minute; the host has made the fire check of
\* the minute that ends
MinuteElapses ==
    /\ AlarmHandled([type |-> "minute"])
    /\ ~background_due
    /\ checked.checks >= 1
    /\ checked.minutes < MaxMinutes
    /\ now' = NextMinute(now)
    /\ checked' = [checked EXCEPT !.minutes = @ + 1, !.checks = 0,
                                  !.fires = 0]
    /\ UNCHANGED <<alarm_state, _wait_ticks, alarm_tick_frequency,
                   alarm_enabled, alarm_sound, alarm_active, alarm_held,
                   background_due>>

(***************************************************************************)
(* AlarmSpec: the alarm face's events, with the clock at rest.             *)
(***************************************************************************)
AlarmInit ==
    /\ TimerSetup({DefaultTimer})
    /\ AlarmSetup(EditedAlarms, {AlarmClock})
    /\ event = [type |-> "setup"]
    /\ before = AlarmSnapshot

AlarmNext ==
    \/ AlarmFaceTick
    \/ AlarmFaceLightButtonUp
    \/ AlarmFaceLightLongPress
    \/ AlarmFaceAlarmButtonUp
    \/ AlarmFaceAlarmLongPress
    \/ AlarmFaceAlarmLongUp
    \/ AlarmFaceTimeout
    \/ AlarmFaceResign
    \/ AlarmFaceActivate

AlarmSpec == AlarmInit /\ [][AlarmNext]_vars

(***************************************************************************)
(* FireSpec: the clock runs from a minute before midnight, on the days of  *)
(* a week of 2024 and on days of 2064, for an alarm at 00:00 with each of  *)
(* the day patterns; the host makes the fire check every minute.           *)
(***************************************************************************)
FireClocks ==
    {[year |-> 4, month |-> 2, day |-> d, hour |-> 23, minute |-> 59] :
        d \in 26..29}
    \cup {[year |-> 4, month |-> 3, day |-> d, hour |-> 23, minute |-> 59] :
             d \in 1..3}
    \cup {[year |-> 44, month |-> 3, day |-> 1, hour |-> 23, minute |-> 59],
          [year |-> 44, month |-> 12, day |-> 31, hour |-> 23, minute |-> 59]}

FireAlarms ==
    {[DefaultAlarm EXCEPT !.day = d, !.enabled = TRUE] :
        d \in 0..(ALARM_DAY_STATES - 1)}
    \cup {DefaultAlarm}

FireInit ==
    /\ TimerSetup({DefaultTimer})
    /\ AlarmSetup(FireAlarms, FireClocks)
    /\ event = [type |-> "setup"]
    /\ before = AlarmSnapshot

FireNext ==
    \/ FireCheck
    \/ MinuteElapses
    \/ AlarmFaceBackgroundTask

FireSpec == FireInit /\ [][FireNext]_vars

(***************************************************************************)
(* IndicatorSpec: _alarm_update_alarm_enabled is applied, by a resign and  *)
(* by the fire check, to an alarm of each day pattern, enabled or not, on  *)
(* each day of the week of Monday 2024-03-04, with the alarm's and the     *)
(* clock's hour and minute drawn from the sampled values.                  *)
(***************************************************************************)
SampleHours == {h \in 0..23 : h < MaxSample \/ h = 23}

SampleMinutes == {m \in 0..59 : m < MaxSample \/ m = 59}

IndicatorAlarms ==
    {[DefaultAlarm EXCEPT !.day = d, !.hour = h, !.minute = m, !.enabled = e] :
        d \in 0..(ALARM_DAY_STATES - 1), h \in SampleHours,
        m \in SampleMinutes, e \in BOOLEAN}

IndicatorClocks ==
    {[year |-> 4, month |-> 3, day |-> d, hour |-> h, minute |-> m] :
        d \in 4..10, h \in SampleHours, m \in SampleMinutes}

IndicatorInit ==
    /\ TimerSetup({DefaultTimer})
    /\ AlarmSetup(IndicatorAlarms, IndicatorClocks)
    /\ event = [type |-> "setup"]
    /\ before = AlarmSnapshot

IndicatorNext ==
    \/ AlarmFaceResign
    \/ AlarmFaceActivate
    \/ FireCheck

IndicatorSpec == IndicatorInit /\ [][IndicatorNext]_vars

(***************************************************************************)
(* WeekdaySpec: _get_weekday_idx is applied to the clock's date, which is  *)
(* any date the year field of 6 bits can carry, 2020-01-01 to 2083-12-31.  *)
(***************************************************************************)
ClockDates ==
    {[year |-> y, month |-> m, day |-> d, hour |-> 0, minute |-> 0] :
        y \in 0..63, m \in 1..12, d \in 1..31}

ValidDates == {dt \in ClockDates : dt.day <= DaysInMonth(dt.year, dt.month)}

WeekdayInit ==
    /\ TimerSetup({DefaultTimer})
    /\ AlarmSetup({DefaultAlarm}, ValidDates)
    /\ event = [type |-> "setup"]
    /\ before = AlarmSnapshot

\* uint8_t weekday_idx = _get_weekday_idx(now)
WeekdayIdx ==
    /\ event.type = "setup"
    /\ AlarmHandled([type |-> "weekday_idx",
                     result |-> _get_weekday_idx(now)])
    /\ UNCHANGED alarm_vars

WeekdayNext == WeekdayIdx

WeekdaySpec == WeekdayInit /\ [][WeekdayNext]_vars

(***************************************************************************)
(* FacesSpec: the settings of both faces are entered, edited with short    *)
(* presses and left, and the host moves between the two faces; one face    *)
(* is shown at a time, the timer face first.                               *)
(***************************************************************************)
FacesInit ==
    /\ TimerSetup({DefaultTimer})
    /\ AlarmSetupAs({DefaultAlarm}, {AlarmClock}, FALSE)
    /\ event = [type |-> "setup"]
    /\ before = Snapshot

FacesNext ==
    \/ TimerLightLongPress
    \/ TimerLightButtonUp
    \/ TimerAlarmButtonUp
    \/ TimerResign
    \/ ~alarm_active /\ TimerActivate
    \/ AlarmFaceLightLongPress
    \/ AlarmFaceLightButtonUp
    \/ AlarmFaceAlarmButtonUp
    \/ AlarmFaceResign
    \/ ~active /\ AlarmFaceActivate

FacesSpec == FacesInit /\ [][FacesNext]_vars

(***************************************************************************)
(* Properties of the timer face.                                           *)
(***************************************************************************)

\* C1: Start on an unset duration is refused. An alarm-button long-press
\* handled while waiting with hours = minutes = seconds = 0 leaves the
\* timer state, the scheduled task and the bell indicator as they were, for
\* either value of repeat; so the timer never runs with a zero duration.
C1_StartRefusedWhenUnset ==
    /\ (/\ event.type = "alarm_long_press"
        /\ before.state.mode = "waiting"
        /\ Duration(before.state.timer) = 0)
       => /\ state = before.state
          /\ bg_task = before.bg_task
          /\ bell = before.bell
    /\ state.mode = "running" => Duration(state.timer) # 0

\* C2: Pause stores paused_left = target_ts - now_ts; resume at clock time
\* t sets target_ts = t + paused_left; and a resume that follows a start
\* and a pause with no tick in between (the paused timer still has
\* now_ts = clock and target_ts = now_ts + duration) gives the target of
\* the uninterrupted run, clock + duration.
Paused ==
    /\ event.type = "alarm_button_up"
    /\ before.state.mode = "running"
    /\ state.mode = "pausing"

Resumed ==
    /\ event.type = "alarm_button_up"
    /\ before.state.mode = "pausing"
    /\ state.mode = "running"

Expired == event.type = "background_task" /\ before.state.mode = "running"

C3_ExpiryOutcome ==
    Expired =>
      IF ~before.state.timer.repeat
      THEN /\ state.mode = "waiting"
           /\ state.loop_count = 0
           /\ ~bg_task.scheduled
           /\ ~bell
      ELSE /\ state.mode = "running"
           /\ state.target_ts = rtc + Duration(before.state.timer)
           /\ bg_task.scheduled
           /\ watch_utility_date_time_to_unix_time(bg_task.dt, TzOffset)
                 = state.target_ts

C3_Witness ==
    /\ Expired
    /\ before.state.timer.repeat
    /\ Duration(before.state.timer) = 1
    /\ rtc > 0
    /\ state.mode = "running"
    /\ state.target_ts = rtc + 1
    /\ bg_task.scheduled

\* C4: after N automatic expiries of a repeating timer since it left
\* waiting, with no manual reset in between, loop_count = N mod 10.
C4_LoopCountIsExpiriesMod10 ==
    state.loop_count = expiries % 10

C4_Witness ==
    /\ state.timer.repeat
    /\ state.mode = "running"
    /\ expiries = 11
    /\ state.loop_count = 1

\* C7: in setting, a cursor advance moves settings_state to the next of
\* 0, 1, 2, 3, 4, 0; when the duration is zero as the advance reaches 4 it
\* lands on 1; the cursor never rests on 4 with a zero duration.
CursorAdvanced ==
    event.type = "light_button_up" /\ before.state.mode = "setting"

C7_CursorOrder ==
    /\ CursorAdvanced =>
         state.settings_state =
           IF before.state.settings_state = 3 /\ Duration(state.timer) = 0
           THEN 1
           ELSE (before.state.settings_state + 1) % 5
    /\ ~(/\ state.mode = "setting"
         /\ state.settings_state = 4
         /\ Duration(state.timer) = 0)

C7_Witness ==
    /\ CursorAdvanced
    /\ before.state.settings_state = 3
    /\ Duration(state.timer) = 0
    /\ state.timer.repeat
    /\ state.mode = "setting"
    /\ state.settings_state = 1

\* C8: in setting with the cursor on hours, minutes or seconds, an alarm
\* long-press sets quick_cycle and requests 8 Hz; a tick that finds the
\* button held increments the field under the cursor by one (hours mod 24,
\* minutes and seconds mod 60) and nothing else of the timer; a release
\* (long-up, button-up, or a tick that finds the button not held) clears
\* quick_cycle and requests 4 Hz; without quick_cycle a tick changes no
\* timer field, and only a long-press sets quick_cycle.
Incremented(t, cursor) ==
    CASE cursor = 1 -> [t EXCEPT !.hours = (@ + 1) % 24]
      [] cursor = 2 -> [t EXCEPT !.minutes = (@ + 1) % 60]
      [] cursor = 3 -> [t EXCEPT !.seconds = (@ + 1) % 60]

QuickTick ==
    /\ event.type = "tick"
    /\ event.held
    /\ before.state.mode = "setting"
    /\ before.state.quick_cycle
    /\ before.state.settings_state \in {1, 2, 3}

Released ==
    \/ event.type \in {"alarm_long_up", "alarm_button_up"}
    \/ /\ event.type = "tick"
       /\ ~event.held
       /\ before.state.mode = "setting"

C8_QuickCycle ==
    /\ (/\ event.type = "alarm_long_press"
        /\ before.state.mode = "setting"
        /\ before.state.settings_state \in {1, 2, 3})
       => state.quick_cycle /\ tick_frequency = 8
    /\ QuickTick =>
         state.timer = Incremented(before.state.timer,
                                   before.state.settings_state)
    /\ (Released /\ before.state.quick_cycle)
       => ~state.quick_cycle /\ tick_frequency = 4
    /\ (event.type = "tick" /\ ~before.state.quick_cycle)
       => state.timer = before.state.timer
    /\ (state.quick_cycle /\ ~before.state.quick_cycle)
       => event.type = "alarm_long_press"

C8_Witness ==
    /\ QuickTick
    /\ before.state.settings_state = 1
    /\ before.state.timer.hours = 23
    /\ state.timer.hours = 0
    /\ tick_frequency = 8

\* C11: an alarm button-up handled while beeps_to_play > 0 sets
\* beeps_to_play to 0 and leaves the mode, target_ts, paused_left, the
\* scheduled task, the timer's hours, minutes, seconds and repeat, and the
\* erase flag as they were.
SilentAcknowledge ==
    event.type = "alarm_button_up" /\ before.beeps_to_play > 0

C11_SilentAcknowledge ==
    SilentAcknowledge =>
      /\ beeps_to_play = 0
      /\ state.mode = before.state.mode
      /\ state.target_ts = before.state.target_ts
      /\ state.paused_left = before.state.paused_left
      /\ bg_task = before.bg_task
      /\ state.timer = before.state.timer
      /\ state.erase_timer_flag = before.state.erase_timer_flag
      /\ state.settings_state = before.state.settings_state

C11_Witness ==
    /\ SilentAcknowledge
    /\ before.state.mode = "running"
    /\ before.beeps_to_play = 4
    /\ beeps_to_play = 0
    /\ state.mode = "running"
    /\ bg_task.scheduled

\* C12: in every mode, the resign of the timer face and its activation
\* each leave the scheduled task, target_ts and a beep countdown that is
\* pending (beeps_to_play > 0) as they were, so that leaving the face and
\* coming back changes none of them.
C12_FaceSwitchKeepsTaskAndBeeps ==
    event.type \in {"resign", "activate"} =>
      /\ bg_task = before.bg_task
      /\ state.target_ts = before.state.target_ts
      /\ before.beeps_to_play > 0 => beeps_to_play = before.beeps_to_play

\* C13: after the resign of the timer face the timer is not in setting: a
\* timer in setting is waiting with cursor 0, any other mode is as it
\* was, and the timer's hours, minutes, seconds and repeat are as they
\* were; after the resign of the alarm face is_setting is false and the
\* alarm's day, hour, minute, pitch, beeps and enabled are as they were.
TimerResigned == event.type = "resign" /\ event.face = "timer"

AlarmResigned == event.type = "resign" /\ event.face = "alarm"

C13_ResignEndsTheEdit ==
    /\ TimerResigned =>
         /\ state.mode # "setting"
         /\ before.state.mode = "setting" =>
               state.mode = "waiting" /\ state.settings_state = 0
         /\ before.state.mode # "setting" => state.mode = before.state.mode
         /\ state.timer = before.state.timer
    /\ AlarmResigned =>
         /\ ~alarm_state.is_setting
         /\ alarm_state.alarm = before.state.alarm

\* the timer face is left in the middle of an edit, with an erase asked
\* for, after the alarm face has been left in the middle of one
C13_Witness ==
    /\ TimerResigned
    /\ before.state.mode = "setting"
    /\ before.state.erase_timer_flag
    /\ before.state.timer # DefaultTimer
    /\ state.mode = "waiting"
    /\ state.timer = before.state.timer
    /\ alarm_state.alarm # DefaultAlarm
    /\ alarm_state.setting_state \in 1..4
    /\ ~alarm_state.is_setting

\* C16: the timer face has a task scheduled exactly when its mode is
\* running, and the task is then scheduled for target_ts. (The host keeps
\* one request per face, so there is never more than one.)
C16_TaskIffRunning ==
    /\ bg_task.scheduled <=> state.mode = "running"
    /\ bg_task.scheduled =>
         watch_utility_date_time_to_unix_time(bg_task.dt, TzOffset)
            = state.target_ts

\* a timer resumed after a pause and a wait, its task scheduled anew
C16_Witness ==
    /\ Resumed
    /\ ~before.bg_task.scheduled
    /\ before.state.target_ts # state.target_ts
    /\ state.mode = "running"
    /\ bg_task.scheduled
    /\ watch_utility_date_time_to_unix_time(bg_task.dt, TzOffset)
          = state.target_ts

\* C17: a cursor advance in setting leaves the mode in setting at every
\* cursor position, the wrap from 4 to 0 included; setting is left only by
\* a light long-press, a resign or a timeout.
C17_CursorAdvanceStaysInSetting ==
    /\ CursorAdvanced => state.mode = "setting"
    /\ (/\ event.type # "setup"
        /\ event.face = "timer"
        /\ before.state.mode = "setting"
        /\ state.mode # "setting")
       => event.type \in {"light_long_press", "resign", "timeout"}

\* C18: whenever the mode is waiting, running or pausing, the tick rate
\* last requested is 1 Hz; 4 Hz or 8 Hz is requested only in setting.
\* Checked on each event the face handles while it stays shown: one that
\* ends in waiting, running or pausing either requests 1 Hz or leaves the
\* rate as it was, so that from 1 Hz the rate stays 1 Hz outside setting.
\* (A resign or a timeout hands the rate over to the host.)
RateRequested ==
    /\ event.type # "setup"
    /\ event.face = "timer"
    /\ event.type \notin {"resign", "timeout", "activate"}
    /\ tick_frequency # before.tick_frequency

C18_TickRateOutsideSetting ==
    (RateRequested /\ state.mode # "setting") => tick_frequency = 1

\* C19: an event handled while the mode is waiting, running or pausing
\* leaves hours, minutes, seconds and repeat as they were (a tick with
\* quick_cycle left set from an earlier edit included), and in every state
\* hours is in 0..23, minutes in 0..59 and seconds in 0..59.
HandledOutsideSetting ==
    /\ event.type # "setup"
    /\ event.face = "timer"
    /\ before.state.mode \in {"waiting", "running", "pausing"}

C19_ConfigEditedOnlyInSetting ==
    /\ HandledOutsideSetting => state.timer = before.state.timer
    /\ state.timer.hours \in 0..23
    /\ state.timer.minutes \in 0..59
    /\ state.timer.seconds \in 0..59

\* a tick in waiting that finds quick_cycle still set and the button held
C19_Witness ==
    /\ HandledOutsideSetting
    /\ event.type = "tick"
    /\ event.held
    /\ before.state.mode = "waiting"
    /\ before.state.quick_cycle
    /\ state.erase_timer_flag # before.state.erase_timer_flag
    /\ Duration(state.timer) > 0
    /\ state.timer = before.state.timer

\* C20: the duration is zeroed by the erase only when a cursor advance
\* away from position 0 is handled with erase_timer_flag set, and that
\* advance clears the flag; leaving setting by a light long-press, a resign
\* or a timeout with the flag set leaves the timer as it was; every entry
\* into setting starts with settings_state = 0 and the flag clear.
Erased ==
    /\ event.type # "setup"
    /\ event.face = "timer"
    /\ Duration(before.state.timer) > 0
    /\ Duration(state.timer) = 0
    /\ \A cursor \in 1..3 :
          state.timer # Incremented(before.state.timer, cursor)

EraseApplied ==
    /\ event.type # "setup"
    /\ event.face = "timer"
    /\ CursorAdvanced
    /\ before.state.erase_timer_flag

LeftWithEraseRequested ==
    /\ event.type # "setup"
    /\ event.face = "timer"
    /\ event.type \in {"light_long_press", "resign", "timeout"}
    /\ before.state.mode = "setting"
    /\ before.state.erase_timer_flag

EnteredSetting ==
    /\ event.type # "setup"
    /\ event.face = "timer"
    /\ before.state.mode # "setting"
    /\ state.mode = "setting"

C20_EraseOnlyOnCursorAdvance ==
    /\ Erased => /\ EraseApplied
                 /\ before.state.settings_state = 0
                 /\ state.settings_state # 0
    /\ EraseApplied => Duration(state.timer) = 0 /\ ~state.erase_timer_flag
    /\ LeftWithEraseRequested =>
         state.mode # "setting" /\ state.timer = before.state.timer
    /\ EnteredSetting =>
         state.settings_state = 0 /\ ~state.erase_timer_flag

\* the advance from position 0 that erases a timer of 23:59:59
C20_Witness ==
    /\ EraseApplied
    /\ Erased
    /\ before.state.timer.hours = 23
    /\ state.timer = ZeroTimer
    /\ state.settings_state = 1
    /\ state.mode = "setting"

\* The bounds of the beep chain: _beeps_to_play is within 0..4; the beep
\* sequence is handed to the buzzer at most 5 times after one
\* EVENT_BACKGROUND_TASK; a callback that finds _beeps_to_play > 0 lowers
\* it by one and plays again; one that finds 0 plays nothing.
CallbackCame ==
    event.type = "signal_callback"

BeepChainBounded ==
    /\ beeps_to_play \in 0..4
    /\ plays \in 0..5
    /\ (CallbackCame /\ before.beeps_to_play > 0) =>
          /\ beeps_to_play = before.beeps_to_play - 1
          /\ buzzer = "beep"
          /\ plays = before.plays + 1
    /\ (CallbackCame /\ before.beeps_to_play = 0) =>
          /\ beeps_to_play = 0
          /\ buzzer = "idle"

\* C21: after an EVENT_BACKGROUND_TASK the beep chain ends: with callbacks
\* delivered fairly, whatever buttons and ticks come in between,
\* _beeps_to_play reaches 0, unless a further EVENT_BACKGROUND_TASK comes
\* or is still to come (a task is scheduled).
FurtherBackgroundTask ==
    event.type = "background_task" \/ bg_task.scheduled

C21_BeepChainTerminates ==
    (beeps_to_play > 0) ~> (beeps_to_play = 0 \/ FurtherBackgroundTask)

\* C22: in running, now_ts never passes target_ts, so that the countdown
\* target_ts - now_ts never wraps below zero. Checked in the states where
\* the task is not yet due, that is with the background event delivered
\* as soon as the clock reaches target_ts.
C22_CountdownNeverNegative ==
    (state.mode = "running" /\ ~TaskDue) => state.now_ts <= state.target_ts

\* C24: loop_count is always within 0..9, and it is 0 whenever the mode is
\* waiting or setting, so that a timer started from waiting counts its
\* cycles from 0.
C24_LoopCountZeroAtRest ==
    /\ state.loop_count \in 0..9
    /\ state.mode \in {"waiting", "setting"} => state.loop_count = 0
    /\ (/\ event.type = "alarm_long_press"
        /\ before.state.mode = "waiting"
        /\ state.mode = "running")
       => state.loop_count = 0

\* a long press that resets a repeating timer in its second cycle or later
C24_Witness ==
    /\ event.type = "alarm_long_press"
    /\ before.state.mode \in {"running", "pausing"}
    /\ before.state.loop_count > 0
    /\ state.mode = "waiting"
    /\ state.loop_count = 0

(***************************************************************************)
(* Properties of the alarm face.                                           *)
(***************************************************************************)

\* dayPatternMatches: the day pattern day matches the weekday index w
DayPatternMatches(day, w) ==
    \/ day = ALARM_DAY_EACH_DAY
    \/ day = w
    \/ day = ALARM_DAY_WORKDAY /\ w \in 0..4
    \/ day = ALARM_DAY_WEEKEND /\ w \in 5..6

\* the alarm is enabled and set to the hour and minute the clock shows
AlarmTimeReached ==
    /\ alarm_state.alarm.enabled
    /\ alarm_state.alarm.hour = now.hour
    /\ alarm_state.alarm.minute = now.minute

\* C5: of the fire checks made within one minute at most one returns true,
\* however many are made; and with a check made every minute the dedup
\* never holds back the first check of a minute in which the alarm is due
\* (enabled, its hour and minute reached, its pattern matching the day's
\* weekday index), so a recurring alarm fires again on its next day.
C5_FireOncePerMinute ==
    /\ checked.fires <= 1
    /\ (/\ event.type = "fire_check"
        /\ event.first
        /\ AlarmTimeReached
        /\ DayPatternMatches(alarm_state.alarm.day, _get_weekday_idx(now)))
       => event.result

\* a second check of the minute in which the alarm has fired for the
\* second day running
C5_Witness ==
    /\ event.type = "fire_check"
    /\ ~event.first
    /\ ~event.result
    /\ AlarmTimeReached
    /\ alarm_state.alarm.day = ALARM_DAY_WORKDAY
    /\ checked.checks = 2
    /\ checked.fires = 1
    /\ checked.total_fires = 2

\* the civil weekday of a date, Monday = 0 .. Sunday = 6, from the number
\* of days since 1970-01-01, a Thursday
DaysFromCivil(y, m, d) ==
    LET yy  == IF m <= 2 THEN y - 1 ELSE y
        era == yy \div 400
        yoe == yy - era * 400
        mp  == IF m > 2 THEN m - 3 ELSE m + 9
        doy == (153 * mp + 2) \div 5 + d - 1
        doe == yoe * 365 + yoe \div 4 - yoe \div 100 + doy
    IN  era * 146097 + doe - 719468

CivilWeekday(dt) == (DaysFromCivil(2020 + dt.year, dt.month, dt.day) + 3) % 7

\* C6: the first fire check of a minute returns true exactly when the
\* alarm is enabled, its hour and minute are those of the clock, and its
\* day pattern matches the weekday of the clock's date.
C6_FireDecision ==
    (event.type = "fire_check" /\ event.first)
    => (event.result <=>
          /\ AlarmTimeReached
          /\ DayPatternMatches(alarm_state.alarm.day, CivilWeekday(now)))

\* C9: in setting with the cursor on hour or minute a long press of the
\* alarm button sets alarm_quick_ticks and requests 8 Hz, and each tick
\* then increments the field under the cursor by one; once the button is
\* released (long-up or button-up) alarm_quick_ticks is false, the rate
\* is back from 8 Hz, and no tick increments hour or minute.
C9_QuickTicksEndOnRelease ==
    /\ (/\ event.type = "alarm_long_press"
        /\ before.state.is_setting
        /\ before.state.setting_state
              \in {alarm_setting_idx_hour, alarm_setting_idx_minute})
       => alarm_state.alarm_quick_ticks /\ alarm_tick_frequency = 8
    /\ (/\ event.type = "tick"
        /\ before.held
        /\ before.state.alarm_quick_ticks
        /\ before.state.setting_state = alarm_setting_idx_hour)
       => alarm_state.alarm.hour = (before.state.alarm.hour + 1) % 24
    /\ (/\ event.type = "tick"
        /\ before.held
        /\ before.state.alarm_quick_ticks
        /\ before.state.setting_state = alarm_setting_idx_minute)
       => alarm_state.alarm.minute = (before.state.alarm.minute + 1) % 60
    /\ ~alarm_held
       => /\ ~alarm_state.alarm_quick_ticks
          /\ alarm_tick_frequency # 8
    /\ (event.type = "tick" /\ ~before.held)
       => /\ alarm_state.alarm.hour = before.state.alarm.hour
          /\ alarm_state.alarm.minute = before.state.alarm.minute

\* C10: a long press of the alarm button outside setting flips enabled and
\* sets _wait_ticks to 0; a release (button-up or long-up) handled after
\* it leaves _wait_ticks at -1 and enabled as it is; the second tick
\* counted after the long press flips enabled back and sets _wait_ticks
\* to -1.
C10_ToggleUndoWindow ==
    /\ (event.type = "alarm_long_press" /\ ~before.state.is_setting)
       => /\ alarm_state.alarm.enabled = ~before.state.alarm.enabled
          /\ _wait_ticks = 0
    /\ event.type \in {"alarm_long_up", "alarm_button_up"}
       => /\ _wait_ticks = -1
          /\ alarm_state.alarm.enabled = before.state.alarm.enabled
    /\ (/\ event.type = "tick"
        /\ before.wait_ticks = 1
        /\ ~before.state.is_setting
        /\ ~before.state.alarm_quick_ticks)
       => /\ alarm_state.alarm.enabled = ~before.state.alarm.enabled
          /\ _wait_ticks = -1

\* C23: _wait_ticks is always -1, 0 or 1; while it is 0 or 1 the face is
\* not in setting and the alarm button is still down since the long press
\* that flipped enabled; a tick flips enabled only while the button is down.
C23_WaitTicksOnlyWhileHeld ==
    /\ _wait_ticks \in {-1, 0, 1}
    /\ _wait_ticks >= 0 => ~alarm_state.is_setting /\ alarm_held
    /\ (/\ event.type = "tick"
        /\ alarm_state.alarm.enabled # before.state.alarm.enabled)
       => before.held

\* C25: _alarm_update_alarm_enabled sets the host's alarm indicator exactly
\* when the alarm is enabled and has an occurrence, on a day its pattern
\* matches, between 0 and 1440 minutes after the clock's minute, for every
\* day pattern, weekday index, and minute of the day of alarm and clock;
\* and the result of the fire check is the same whatever the indicator is.
MinutesToOccurrence(alarm, clock, days) ==
    days * 1440 + (alarm.hour * 60 + alarm.minute)
        - (clock.hour * 60 + clock.minute)

OccursWithinADay(alarm, clock) ==
    /\ alarm.enabled
    /\ \E days \in 0..7 :
          /\ DayPatternMatches(alarm.day,
                               (_get_weekday_idx(clock) + days) % 7)
          /\ MinutesToOccurrence(alarm, clock, days) \in 0..1440

IndicatorUpdated ==
    \/ event.type = "resign" /\ event.face = "alarm"
    \/ /\ event.type = "fire_check"
       /\ ~event.result
       /\ before.state.alarm_handled_minute # now.minute
       /\ now.minute % 12 = 0

C25_IndicatorIsOccurrenceWithinADay ==
    /\ IndicatorUpdated =>
         (alarm_enabled <=> OccursWithinADay(alarm_state.alarm, now))
    /\ event.type = "fire_check" =>
         event.result =
           alarm_face_wants_background_task(
               [before EXCEPT !.alarm_enabled = ~@], before.now).result

\* the indicator set for a Saturday alarm at 00:00 on Friday at 23:59
C25_Witness ==
    /\ IndicatorUpdated
    /\ alarm_state.alarm.day = 5
    /\ _get_weekday_idx(now) = 4
    /\ alarm_state.alarm.hour = 0 /\ alarm_state.alarm.minute = 0
    /\ now.hour = 23 /\ now.minute = 59
    /\ alarm_enabled

\* C14: for every date the clock can carry, _get_weekday_idx returns the
\* civil weekday of the date, Monday = 0 .. Sunday = 6.
C14_WeekdayIdxIsCivilWeekday ==
    event.type = "weekday_idx" => event.result = CivilWeekday(now)

\* C15: after every fire check made in a minute with minute % 12 = 0,
\* whether it has returned true or false, the host's alarm indicator is
\* what _alarm_update_alarm_enabled computes from the alarm and the clock.
C15_IndicatorRefreshedOnEveryCheck ==
    (event.type = "fire_check" /\ now.minute % 12 = 0)
    => alarm_enabled
          = _alarm_update_alarm_enabled(AlarmWorld, now).alarm_enabled

====
